---- MODULE Spec2Model ----
(***************************************************************************)
(* Model of package wasm_exec (src/wasm_exec/wasm_exec.go): the "go" host  *)
(* module of GOOS=js GOARCH=wasm guests.  One jsWasm value j holds the     *)
(* exit latch (closed), the scheduling table (scheduledTimeouts), its lock *)
(* (mux) and the id counter; guest instances call its host functions from  *)
(* several threads of control, and time.AfterFunc timers run callResume on *)
(* goroutines of their own.                                                *)
(***************************************************************************)
EXTENDS Integers, Sequences, FiniteSets, TLC

\* ------------------------------------------------------------- bounds
\* Host calls begun over a run, and timers created over a run.
MaxCalls == 3
MaxTimers == 2
\* Bytes of guest memory, and host calls made through the sp wrappers over a run.
MemSize == 32
MaxMemCalls == 2

\* Threads of control that call host functions.
Procs == {1, 2}
\* Guest instances that import the one instantiated "go" module.
Mods == {"A", "B"}

VARIABLES
    closed,                 \* j.closed: <<>> is the nil pointer, <<v>> points at a uint64 v
    scheduledTimeouts,      \* j.scheduledTimeouts: [isNil, entries]; entries is a set of <<id, timer>>
    nextCallbackTimeoutID,  \* j.nextCallbackTimeoutID (uint32)
    mux,                    \* j.mux: 0 when unlocked, else the thread holding it
    timers,                 \* the *time.Timer objects made by time.AfterFunc, in creation order
    modClosed,              \* per guest instance: CloseWithExitCode has closed it
    call,                   \* per thread: the host call it is in, or the last one it made
    hist,                   \* history of the latch: who latched, how often the instance was closed;
                            \* pre counts the timers made before the run begins
    crashed,                \* an unrecovered panic on a timer goroutine ended the process
    ncalls,                 \* host calls begun so far
    mem,                    \* the guest's linear memory: a sequence of bytes, address a at mem[a + 1]
    stdout,                 \* the bytes written to getSysCtx(mod).Stdout(), in order
    stderr,                 \* the bytes written to getSysCtx(mod).Stderr(), in order
    mcall,                  \* the last host function called through its sp wrapper, and how it ended
    nmem                    \* wrapper calls made so far

vars == <<closed, scheduledTimeouts, nextCallbackTimeoutID, mux, timers,
          modClosed, call, hist, crashed, ncalls, mem, stdout, stderr, mcall, nmem>>

\* What a host function reaches through the guest's memory and the system context.
memVars == <<mem, stdout, stderr, mcall, nmem>>

\* ------------------------------------------------------------- values
NilPtr == <<>>
IsNil(ptr) == Len(ptr) = 0
Deref(ptr) == ptr[1]

NoTimer == 0

\* Fixed-width unsigned integers, most significant 16-bit limb first: a uint32
\* is <<hi, lo>> and a uint64 is <<w3, w2, w1, w0>>.
Limb == 2^16
ToUint32(n) == <<n \div Limb, n % Limb>>
MaxUint32 == <<Limb - 1, Limb - 1>>
Zero64 == <<0, 0, 0, 0>>
One64 == <<0, 0, 0, 1>>
\* uint64(x) of a uint32
Uint64Of(x) == <<0, 0, x[1], x[2]>>
\* uint32(v) of a uint64
Uint32Of(v) == <<v[3], v[4]>>
\* v << 32 and v >> 32 of a uint64
Shl32(v) == <<v[3], v[4], 0, 0>>
Shr32(v) == <<0, 0, v[1], v[2]>>
\* a + b of uint64, modulo 2^64
Add64(a, b) ==
    LET s0 == a[4] + b[4]
        s1 == a[3] + b[3] + (s0 \div Limb)
        s2 == a[2] + b[2] + (s1 \div Limb)
        s3 == a[1] + b[1] + (s2 \div Limb)
    IN <<s3 % Limb, s2 % Limb, s1 % Limb, s0 % Limb>>
\* x++ of a uint32, modulo 2^32
Inc32(x) == IF x[2] + 1 < Limb THEN <<x[1], x[2] + 1>> ELSE <<(x[1] + 1) % Limb, 0>>

\* Exit codes a guest passes to runtime.wasmExit (uint32), the extremes included.
Codes == {ToUint32(0), ToUint32(Limb + 2), MaxUint32}
\* Ids a guest passes to runtime.clearTimeoutEvent.
ClearIds == {ToUint32(i) : i \in 0 .. MaxTimers - 1}

\* A wasmExit that stores the code alone, without the low-order marker bit.
PackClosed_NoMarker(code) == Shl32(Uint64Of(code))

\* closed := uint64(1) + uint64(code)<<32
PackClosed(code) == Add64(One64, Shl32(Uint64Of(code)))

\* uint32(closed>>32)
UnpackCode(v) == Uint32Of(Shr32(v))

NoCode == ToUint32(0)
NoError == [kind |-> "nil", code |-> NoCode]
ExitError(code) == [kind |-> "ExitError", code |-> code]
NilDeref == [kind |-> "nilDeref", code |-> NoCode]

\* A failIfClosed that never reports the latch.
failIfClosed_NeverClosed(ptr) == IF IsNil(ptr) THEN NilDeref ELSE NoError

\* failIfClosed: atomic.LoadUint64(j.closed), then the ExitError or nil.
\* Loading through a nil pointer panics.
failIfClosed(ptr) ==
    IF IsNil(ptr) THEN NilDeref
    ELSE IF Deref(ptr) # Zero64 THEN ExitError(UnpackCode(Deref(ptr)))
    ELSE NoError

\* ------------------------------------------------------------- the table
Entries == scheduledTimeouts.entries
TableIds == {e[1] : e \in Entries}
\* t, ok := j.scheduledTimeouts[id]   (a nil map reads as empty)
Lookup(id) == IF id \in TableIds THEN (CHOOSE e \in Entries : e[1] = id)[2] ELSE NoTimer
\* j.scheduledTimeouts[id] = t   (overwrites an entry of the same id)
Store(id, t) == {e \in Entries : e[1] # id} \cup {<<id, t>>}
\* A delete that empties the map.
Delete_Everything(id) == {}
\* delete(j.scheduledTimeouts, id)
Delete(id) == {e \in Entries : e[1] # id}

\* ------------------------------------------------------------- calls
IdleCall == [op |-> "none", pc |-> "idle", mod |-> "A", arg |-> ToUint32(0), t |-> NoTimer,
             id |-> ToUint32(0), latched |-> FALSE, outcome |-> "none", stopped |-> FALSE]

NewCall(op, pc, m, arg) == [IdleCall EXCEPT !.op = op, !.pc = pc, !.mod = m, !.arg = arg]

\* The call is over: the thread keeps what it called and how the call ended.
Ended(c, outcome) == [IdleCall EXCEPT !.op = c.op, !.latched = c.latched, !.stopped = c.stopped,
                                      !.outcome = outcome]
\* The host function returns to the guest caller.
Return(p) == [call EXCEPT ![p] = Ended(call[p], "returned")]
\* The host function panics: the engine ends the guest call with that error.
Panic(p) == [call EXCEPT ![p] = Ended(call[p], "panic")]

\* A timer of time.AfterFunc(d, callResume), with the instance and resume
\* function callResume captured.  History kept with it: err is what its
\* failIfClosed returned, resumed counts the times guest resume began, late
\* says resume began with the latch of its instance set, cleared that Stop
\* took effect before it fired, cancelReturned that a clearTimeoutEvent of
\* its id has returned since it was made.
NewTimer(m, id) == [state |-> "armed", mod |-> m, id |-> id, err |-> "none",
                    resumed |-> 0, late |-> FALSE, cleared |-> FALSE,
                    cancelReturned |-> FALSE]

\* The timers after a clearTimeoutEvent(id) has returned.
NoteCancelReturned(ts, id) ==
    [t \in 1 .. Len(ts) |-> IF ts[t].id = id THEN [ts[t] EXCEPT !.cancelReturned = TRUE] ELSE ts[t]]

\* ------------------------------------------------------------- guest memory
\* sp + k of a uint32 sp and a small k, modulo 2^32
Add32(x, k) ==
    LET lo == x[2] + k
    IN <<(x[1] + lo \div Limb) % Limb, lo % Limb>>

\* The k-th parameter or result slot of a call frame with four-byte strides.
Slot_FourByteStride(sp, k) == Add32(sp, 4 + 4 * k)

\* The k-th parameter or result slot of a call frame: sp+8, sp+16, sp+24.
Slot(sp, k) == Add32(sp, 8 * k)

\* api.Memory checks offset + byteCount against the size of the memory.
InRange(off, n) == off[1] = 0 /\ n[1] = 0 /\ off[2] + n[2] <= MemSize

\* The k bytes of memory m from address a on, and m with bytes bs stored from
\* address a on.
Bytes(m, a, k) == [i \in 1 .. k |-> m[a + i]]
Put(m, a, bs) ==
    [i \in 1 .. Len(m) |-> IF i > a /\ i <= a + Len(bs) THEN bs[i - a] ELSE m[i]]

\* Little-endian decoding and encoding of uint32 and uint64.
LeUint32(b) == <<b[4] * 256 + b[3], b[2] * 256 + b[1]>>
LeUint64(b) == <<b[8] * 256 + b[7], b[6] * 256 + b[5], b[4] * 256 + b[3], b[2] * 256 + b[1]>>
LeBytes32(x) == <<x[2] % 256, x[2] \div 256, x[1] % 256, x[1] \div 256>>
LeBytes64(x) == <<x[4] % 256, x[4] \div 256, x[3] % 256, x[3] \div 256,
                  x[2] % 256, x[2] \div 256, x[1] % 256, x[1] \div 256>>

\* The require* helpers: ok is false where the helper panics with
\* "out of memory reading/writing".
requireRead(m, off, n) ==
    IF InRange(off, n) THEN [ok |-> TRUE, val |-> Bytes(m, off[2], n[2])]
                       ELSE [ok |-> FALSE, val |-> <<>>]
\* A read helper that hands out zero where the memory ends.
requireReadUint32Le_ZeroFill(m, off) ==
    IF InRange(off, ToUint32(4)) THEN [ok |-> TRUE, val |-> LeUint32(Bytes(m, off[2], 4))]
                                 ELSE [ok |-> TRUE, val |-> ToUint32(0)]
requireReadUint32Le(m, off) ==
    IF InRange(off, ToUint32(4)) THEN [ok |-> TRUE, val |-> LeUint32(Bytes(m, off[2], 4))]
                                 ELSE [ok |-> FALSE, val |-> ToUint32(0)]
requireReadUint64Le(m, off) ==
    IF InRange(off, ToUint32(8)) THEN [ok |-> TRUE, val |-> LeUint64(Bytes(m, off[2], 8))]
                                 ELSE [ok |-> FALSE, val |-> Zero64]
requireWriteUint64Le(m, off, v) ==
    IF InRange(off, ToUint32(8)) THEN [ok |-> TRUE, mem |-> Put(m, off[2], LeBytes64(v))]
                                 ELSE [ok |-> FALSE, mem |-> m]
requireWriteUint32Le(m, off, v) ==
    IF InRange(off, ToUint32(4)) THEN [ok |-> TRUE, mem |-> Put(m, off[2], LeBytes32(v))]
                                 ELSE [ok |-> FALSE, mem |-> m]

\* Stack pointers a guest passes: a frame inside the memory, a frame whose
\* second slot is past the end, a frame whose first slot straddles the end,
\* and one near 2^32.
Sps == {ToUint32(0), ToUint32(16), ToUint32(22), <<Limb - 1, Limb - 8>>}

\* What the guest has stored in its three frame words before it calls.
Word1 == {<<0, 0, 0, 1>>, <<0, 0, 0, 2>>, <<0, 0, 0, 3>>}
Word2 == {<<0, 0, 0, 4>>, <<0, 1, 0, 4>>, <<0, 0, 0, 30>>}
Word3 == {<<0, 0, 0, 0>>, <<0, 0, 0, 3>>, <<0, 0, 0, 40>>}

\* A guest memory: eight bytes of data "ABCDEFGH" at address 0, then the three
\* frame words at 8, 16 and 24, then zero bytes.
Image(w1, w2, w3) ==
    <<65, 66, 67, 68, 69, 70, 71, 72>> \o LeBytes64(w1) \o LeBytes64(w2) \o LeBytes64(w3)
        \o [i \in 1 .. MemSize - 32 |-> 0]

\* What the clocks and the random source of the system context hand out.
WallTimes == {<< <<0, 2, 25939, 61696>>, <<15258, 51711>> >>}
NanoTimes == {<<0, 1, 2, 3>>}
RandByte == 165

\* No wrapper call yet, and the record of a wrapper call that is over: the
\* function, its sp, how it ended, the arguments it decoded, how often it read
\* the random source, how many bytes the source gave and whether it reported
\* an error.
NoMemCall == [fn |-> "none", sp |-> ToUint32(0), outcome |-> "none", err |-> "none",
              args |-> <<>>, rand |-> 0, got |-> 0, srcErr |-> FALSE]
MemEnd(fn, sp, outcome, err, args) ==
    [NoMemCall EXCEPT !.fn = fn, !.sp = sp, !.outcome = outcome, !.err = err, !.args = args]
OutOfRange(fn, sp, args) == MemEnd(fn, sp, "panic", "out of range", args)

\* ------------------------------------------------------------- Init
\* moduleBuilder makes g := &jsWasm{}: closed and scheduledTimeouts are nil.
\* The struct also admits the value its methods are written for, with the
\* latch cell and the map allocated; both are initial states.
Init ==
    /\ \/ /\ closed = NilPtr
          /\ scheduledTimeouts = [isNil |-> TRUE, entries |-> {}]
       \/ /\ closed = <<Zero64>>
          /\ scheduledTimeouts = [isNil |-> FALSE, entries |-> {}]
    /\ nextCallbackTimeoutID = ToUint32(0)
    /\ mux = 0
    /\ timers = <<>>
    /\ modClosed = [m \in Mods |-> FALSE]
    /\ call = [p \in Procs |-> IdleCall]
    /\ hist = [latches |-> 0, code |-> NoCode, mod |-> "A", closes |-> 0, pre |-> 0]
    /\ crashed = FALSE
    /\ ncalls = 0
    /\ mem = Image(<<0, 0, 0, 1>>, Zero64, Zero64)
    /\ stdout = <<>>
    /\ stderr = <<>>
    /\ mcall = NoMemCall
    /\ nmem = 0

\* The instance as moduleBuilder builds it.
BuiltByModuleBuilder == scheduledTimeouts.isNil

\* The exit latch is set.
Latched == ~IsNil(closed) /\ Deref(closed) # Zero64

CanCall(p) == ~crashed /\ call[p].pc = "idle" /\ ncalls < MaxCalls

\* A mutex that lets every caller in.
LockFree_NoMutex == TRUE

\* j.mux.Lock() goes on only while no other call holds the lock.
LockFree == mux = 0

\* ------------------------------------------------------------- wasmExit
\* Instance m calls wasmExit(code), up to and including
\* atomic.CompareAndSwapUint64(j.closed, 0, closed); return when it fails.
wasmExit_CAS(p, m, code) ==
    /\ CanCall(p)
    /\ ncalls' = ncalls + 1
    /\ LET c == NewCall("wasmExit", "wasmExit_cas", m, code)
       IN IF IsNil(closed)
            THEN /\ call' = [call EXCEPT ![p] = Ended(c, "panic")]
                 /\ UNCHANGED <<closed, hist>>
            ELSE IF Deref(closed) = Zero64
            THEN /\ closed' = <<PackClosed(code)>>
                 /\ call' = [call EXCEPT ![p] = [c EXCEPT !.pc = "wasmExit_close", !.latched = TRUE]]
                 /\ hist' = [hist EXCEPT !.latches = @ + 1, !.code = code, !.mod = m]
            ELSE /\ call' = [call EXCEPT ![p] = Ended(c, "returned")]
                 /\ UNCHANGED <<closed, hist>>
    /\ UNCHANGED <<scheduledTimeouts, nextCallbackTimeoutID, mux, timers,
                   modClosed, crashed>>
    /\ UNCHANGED memVars

\* mod.CloseWithExitCode(ctx, code): the instance is closed; its error result is
\* dropped and wasmExit returns.
CloseWithExitCode(m) == [modClosed EXCEPT ![m] = TRUE]

wasmExit_Close(p) ==
    /\ ~crashed
    /\ call[p].pc = "wasmExit_close"
    /\ modClosed' = CloseWithExitCode(call[p].mod)
    /\ hist' = [hist EXCEPT !.closes = @ + 1]
    /\ call' = Return(p)
    /\ UNCHANGED <<closed, scheduledTimeouts, nextCallbackTimeoutID, mux, timers,
                   crashed, ncalls>>
    /\ UNCHANGED memVars

\* ------------------------------------------------------------- scheduleTimeoutEvent
\* Instance m calls scheduleTimeoutEvent, up to and including j.mux.Lock() of
\* scheduleEvent and id := j.nextCallbackTimeoutID: the call goes on when the
\* lock is free.
scheduleEvent_Lock(p, m) ==
    /\ CanCall(p)
    /\ Len(timers) - hist.pre < MaxTimers
    /\ LockFree
    /\ mux' = p
    /\ call' = [call EXCEPT ![p] =
                   [NewCall("scheduleTimeoutEvent", "scheduleEvent_body", m, ToUint32(0))
                       EXCEPT !.id = nextCallbackTimeoutID]]
    /\ ncalls' = ncalls + 1
    /\ UNCHANGED <<closed, scheduledTimeouts, nextCallbackTimeoutID, timers,
                   modClosed, hist, crashed>>
    /\ UNCHANGED memVars

\* j.nextCallbackTimeoutID++; j.scheduledTimeouts[id] = time.AfterFunc(d, f)
\* AfterFunc is evaluated, and the timer armed, before the map is assigned;
\* assigning into a nil map panics.
scheduleEvent_Body(p) ==
    /\ ~crashed
    /\ call[p].pc = "scheduleEvent_body"
    /\ LET id == call[p].id
           t  == Len(timers) + 1
       IN /\ nextCallbackTimeoutID' = Inc32(nextCallbackTimeoutID)
          /\ timers' = Append(timers, NewTimer(call[p].mod, id))
          /\ IF scheduledTimeouts.isNil
               THEN /\ call' = [call EXCEPT ![p].pc = "scheduleEvent_unlock", ![p].outcome = "panicking"]
                    /\ UNCHANGED scheduledTimeouts
               ELSE /\ call' = [call EXCEPT ![p].pc = "scheduleEvent_unlock", ![p].t = t]
                    /\ scheduledTimeouts' = [scheduledTimeouts EXCEPT !.entries = Store(id, t)]
    /\ UNCHANGED <<closed, mux, modClosed, hist, crashed, ncalls>>
    /\ UNCHANGED memVars

\* defer j.mux.Unlock(), then the return of id or the panic goes on.
scheduleEvent_Unlock(p) ==
    /\ ~crashed
    /\ call[p].pc = "scheduleEvent_unlock"
    /\ mux' = 0
    /\ call' = IF call[p].outcome = "panicking" THEN Panic(p) ELSE Return(p)
    /\ UNCHANGED <<closed, scheduledTimeouts, nextCallbackTimeoutID, timers,
                   modClosed, hist, crashed, ncalls>>
    /\ UNCHANGED memVars

\* ------------------------------------------------------------- the timer and callResume
\* The delay elapses: the runtime starts callResume on a goroutine of its own.
TimerFire(t) ==
    /\ ~crashed
    /\ timers[t].state = "armed"
    /\ timers' = [timers EXCEPT ![t].state = "check"]
    /\ UNCHANGED <<closed, scheduledTimeouts, nextCallbackTimeoutID, mux,
                   modClosed, call, hist, crashed, ncalls>>
    /\ UNCHANGED memVars

\* if err := j.failIfClosed(mod); err != nil { return }
callResume_failIfClosed(t) ==
    /\ ~crashed
    /\ timers[t].state = "check"
    /\ LET err == failIfClosed(closed)
       IN IF err.kind = "nilDeref"
            THEN /\ timers' = [timers EXCEPT ![t].state = "panicked", ![t].err = err.kind]
                 /\ crashed' = TRUE
            ELSE IF err.kind = "ExitError"
            THEN /\ timers' = [timers EXCEPT ![t].state = "done", ![t].err = err.kind]
                 /\ UNCHANGED crashed
            ELSE /\ timers' = [timers EXCEPT ![t].state = "call", ![t].err = err.kind]
                 /\ UNCHANGED crashed
    /\ UNCHANGED <<closed, scheduledTimeouts, nextCallbackTimeoutID, mux,
                   modClosed, call, hist, ncalls>>
    /\ UNCHANGED memVars

\* resume.Call(ctx) on a closed instance fails without running guest code.
ResumeRuns(m) == ~modClosed[m]

\* _, _ = resume.Call(ctx)
callResume_Call(t) ==
    /\ ~crashed
    /\ timers[t].state = "call"
    /\ IF ResumeRuns(timers[t].mod)
         THEN timers' = [timers EXCEPT ![t].state = "running",
                                       ![t].resumed = @ + 1,
                                       ![t].late = (Latched /\ hist.mod = timers[t].mod)]
         ELSE timers' = [timers EXCEPT ![t].state = "done"]
    /\ UNCHANGED <<closed, scheduledTimeouts, nextCallbackTimeoutID, mux,
                   modClosed, call, hist, crashed, ncalls>>
    /\ UNCHANGED memVars

\* The guest's resume returns and callResume ends.
callResume_Return(t) ==
    /\ ~crashed
    /\ timers[t].state = "running"
    /\ timers' = [timers EXCEPT ![t].state = "done"]
    /\ UNCHANGED <<closed, scheduledTimeouts, nextCallbackTimeoutID, mux,
                   modClosed, call, hist, crashed, ncalls>>
    /\ UNCHANGED memVars

\* ------------------------------------------------------------- clearTimeoutEvent
\* Instance m calls clearTimeoutEvent(id), up to and including j.mux.Lock() of
\* removeEvent: the call goes on when the lock is free.
removeEvent_Lock(p, m, id) ==
    /\ CanCall(p)
    /\ LockFree
    /\ mux' = p
    /\ call' = [call EXCEPT ![p] = NewCall("clearTimeoutEvent", "removeEvent_body", m, id)]
    /\ ncalls' = ncalls + 1
    /\ UNCHANGED <<closed, scheduledTimeouts, nextCallbackTimeoutID, timers,
                   modClosed, hist, crashed>>
    /\ UNCHANGED memVars

\* t, ok := j.scheduledTimeouts[id]; if ok { delete(j.scheduledTimeouts, id); return t }
removeEvent_Body(p) ==
    /\ ~crashed
    /\ call[p].pc = "removeEvent_body"
    /\ LET t == Lookup(call[p].arg)
       IN /\ call' = [call EXCEPT ![p].pc = "removeEvent_unlock", ![p].t = t]
          /\ scheduledTimeouts' = [scheduledTimeouts EXCEPT !.entries = Delete(call[p].arg)]
    /\ UNCHANGED <<closed, nextCallbackTimeoutID, mux, timers,
                   modClosed, hist, crashed, ncalls>>
    /\ UNCHANGED memVars

\* A removeEvent that hands the timer back with the lock still held.
removeEvent_Unlock_KeepLock(p) ==
    /\ ~crashed
    /\ call[p].pc = "removeEvent_unlock"
    /\ IF call[p].t = NoTimer
         THEN /\ call' = Return(p)
              /\ timers' = NoteCancelReturned(timers, call[p].arg)
              /\ mux' = 0
         ELSE /\ call' = [call EXCEPT ![p].pc = "clear_stop"]
              /\ UNCHANGED <<timers, mux>>
    /\ UNCHANGED <<closed, scheduledTimeouts, nextCallbackTimeoutID,
                   modClosed, hist, crashed, ncalls>>
    /\ UNCHANGED memVars

\* defer j.mux.Unlock(); back in clearTimeoutEvent: if t != nil { ... }
removeEvent_Unlock(p) ==
    /\ ~crashed
    /\ call[p].pc = "removeEvent_unlock"
    /\ mux' = 0
    /\ IF call[p].t = NoTimer
         THEN /\ call' = Return(p)
              /\ timers' = NoteCancelReturned(timers, call[p].arg)
         ELSE /\ call' = [call EXCEPT ![p].pc = "clear_stop"]
              /\ UNCHANGED timers
    /\ UNCHANGED <<closed, scheduledTimeouts, nextCallbackTimeoutID,
                   modClosed, hist, crashed, ncalls>>
    /\ UNCHANGED memVars

\* A clearTimeoutEvent that drops the timer from the table without stopping it.
clearTimeoutEvent_NoStop(p) ==
    /\ ~crashed
    /\ call[p].pc = "clear_stop"
    /\ LET t == call[p].t
       IN /\ timers' = NoteCancelReturned(
                           [timers EXCEPT ![t].cleared = (timers[t].state = "armed")],
                           call[p].arg)
          /\ call' = [call EXCEPT ![p] = Ended([call[p] EXCEPT !.stopped = TRUE], "returned")]
    /\ UNCHANGED <<closed, scheduledTimeouts, nextCallbackTimeoutID, mux,
                   modClosed, hist, crashed, ncalls>>
    /\ UNCHANGED memVars

\* if !t.Stop() { <-t.C }
\* Stop reports true when it stops an armed timer and false when the timer
\* has fired.  A timer of AfterFunc has a nil channel C, so the receive never
\* completes: the call stays at "clear_recv".
clearTimeoutEvent_Stop(p) ==
    /\ ~crashed
    /\ call[p].pc = "clear_stop"
    /\ LET t == call[p].t
       IN IF timers[t].state = "armed"
            THEN /\ timers' = NoteCancelReturned(
                                [timers EXCEPT ![t].state = "stopped", ![t].cleared = TRUE],
                                call[p].arg)
                 /\ call' = [call EXCEPT ![p] = Ended([call[p] EXCEPT !.stopped = TRUE], "returned")]
            ELSE /\ call' = [call EXCEPT ![p].pc = "clear_recv"]
                 /\ UNCHANGED timers
    /\ UNCHANGED <<closed, scheduledTimeouts, nextCallbackTimeoutID, mux,
                   modClosed, hist, crashed, ncalls>>
    /\ UNCHANGED memVars

\* ------------------------------------------------------------- the sp wrappers
\* The functions the "go" module exports take one parameter, sp, and find
\* their arguments and leave their results in the guest's memory.  Each
\* action below is one whole host call by instance "A", made while no other
\* call or callback runs.
jsWasmVars == <<closed, scheduledTimeouts, nextCallbackTimeoutID, mux, timers,
                modClosed, call, hist, crashed, ncalls>>

CanCallWrapper == nmem < MaxMemCalls

\* _wasmExit: code at sp+8, then wasmExit(code).
_wasmExit(sp) ==
    /\ CanCallWrapper
    /\ nmem' = nmem + 1
    /\ LET r == requireReadUint32Le(mem, Slot(sp, 1))
           code == r.val
       IN IF ~r.ok
            THEN /\ mcall' = OutOfRange("_wasmExit", sp, <<>>)
                 /\ UNCHANGED <<closed, modClosed, hist>>
            ELSE IF IsNil(closed)
            THEN /\ mcall' = MemEnd("_wasmExit", sp, "panic", "nil deref", <<code>>)
                 /\ UNCHANGED <<closed, modClosed, hist>>
            ELSE IF Deref(closed) = Zero64
            THEN /\ closed' = <<PackClosed(code)>>
                 /\ modClosed' = CloseWithExitCode("A")
                 /\ hist' = [hist EXCEPT !.latches = @ + 1, !.code = code, !.mod = "A",
                                         !.closes = @ + 1]
                 /\ mcall' = MemEnd("_wasmExit", sp, "returned", "none", <<code>>)
            ELSE /\ mcall' = MemEnd("_wasmExit", sp, "returned", "none", <<code>>)
                 /\ UNCHANGED <<closed, modClosed, hist>>
    /\ UNCHANGED <<scheduledTimeouts, nextCallbackTimeoutID, mux, timers, call,
                   crashed, ncalls, mem, stdout, stderr>>

\* A wasmWrite that sends everything to stderr.
WriterOf_AlwaysStderr(fd) == "stderr"

\* switch fd { case 1: Stdout(); case 2: Stderr(); default: panic }
WriterOf(fd) ==
    IF fd = <<0, 0, 0, 1>> THEN "stdout"
    ELSE IF fd = <<0, 0, 0, 2>> THEN "stderr"
    ELSE "unexpected fd"

\* _wasmWrite: fd at sp+8, p at sp+16, n at sp+24, then wasmWrite(fd, p, n):
\* the writer is chosen, the n bytes at uint32(p) are read, and writer.Write
\* either takes them all or reports an error (failed).
_wasmWrite(sp, failed) ==
    /\ CanCallWrapper
    /\ nmem' = nmem + 1
    /\ LET fd == requireReadUint64Le(mem, Slot(sp, 1))
           p  == requireReadUint64Le(mem, Slot(sp, 2))
           n  == requireReadUint32Le(mem, Slot(sp, 3))
           args == <<fd.val, p.val, n.val>>
           writer == WriterOf(fd.val)
           data == requireRead(mem, Uint32Of(p.val), n.val)
       IN IF ~fd.ok \/ ~p.ok \/ ~n.ok
            THEN /\ mcall' = OutOfRange("_wasmWrite", sp, <<>>)
                 /\ UNCHANGED <<stdout, stderr>>
            ELSE IF writer = "unexpected fd"
            THEN /\ mcall' = MemEnd("_wasmWrite", sp, "panic", "unexpected fd", args)
                 /\ UNCHANGED <<stdout, stderr>>
            ELSE IF ~data.ok
            THEN /\ mcall' = OutOfRange("_wasmWrite", sp, args)
                 /\ UNCHANGED <<stdout, stderr>>
            ELSE IF failed
            THEN /\ mcall' = MemEnd("_wasmWrite", sp, "panic", "error writing p", args)
                 /\ UNCHANGED <<stdout, stderr>>
            ELSE /\ mcall' = MemEnd("_wasmWrite", sp, "returned", "none", args)
                 /\ stdout' = IF writer = "stdout" THEN stdout \o data.val ELSE stdout
                 /\ stderr' = IF writer = "stderr" THEN stderr \o data.val ELSE stderr
    /\ UNCHANGED <<mem>>
    /\ UNCHANGED jsWasmVars

\* _resetMemoryDataView: sp is not used and nothing is done.
_resetMemoryDataView(sp) ==
    /\ CanCallWrapper
    /\ nmem' = nmem + 1
    /\ mcall' = MemEnd("_resetMemoryDataView", sp, "returned", "none", <<>>)
    /\ UNCHANGED <<mem, stdout, stderr>>
    /\ UNCHANGED jsWasmVars

\* _nanotime1: the monotonic clock's reading goes to sp+8.
_nanotime1(sp, now) ==
    /\ CanCallWrapper
    /\ nmem' = nmem + 1
    /\ LET w == requireWriteUint64Le(mem, Slot(sp, 1), now)
       IN /\ mem' = w.mem
          /\ mcall' = IF w.ok THEN MemEnd("_nanotime1", sp, "returned", "none", <<now>>)
                              ELSE OutOfRange("_nanotime1", sp, <<now>>)
    /\ UNCHANGED <<stdout, stderr>>
    /\ UNCHANGED jsWasmVars

\* _walltime: sec goes to sp+8, then nsec to sp+16.
_walltime(sp, now) ==
    /\ CanCallWrapper
    /\ nmem' = nmem + 1
    /\ LET sec  == requireWriteUint64Le(mem, Slot(sp, 1), now[1])
           nsec == requireWriteUint32Le(sec.mem, Slot(sp, 2), now[2])
       IN /\ mem' = IF sec.ok THEN nsec.mem ELSE mem
          /\ mcall' = IF sec.ok /\ nsec.ok
                         THEN MemEnd("_walltime", sp, "returned", "none", now)
                         ELSE OutOfRange("_walltime", sp, now)
    /\ UNCHANGED <<stdout, stderr>>
    /\ UNCHANGED jsWasmVars

\* _scheduleTimeoutEvent: delay at sp+8, then scheduleTimeoutEvent(delay) makes
\* and stores the timer, then the id goes to sp+16.
_scheduleTimeoutEvent(sp) ==
    /\ CanCallWrapper
    /\ Len(timers) - hist.pre < MaxTimers
    /\ nmem' = nmem + 1
    /\ LET delay == requireReadUint64Le(mem, Slot(sp, 1))
           id == nextCallbackTimeoutID
           t  == Len(timers) + 1
           w  == requireWriteUint32Le(mem, Slot(sp, 2), id)
       IN IF ~delay.ok
            THEN /\ mcall' = OutOfRange("_scheduleTimeoutEvent", sp, <<>>)
                 /\ UNCHANGED <<scheduledTimeouts, nextCallbackTimeoutID, timers, mem>>
            ELSE /\ nextCallbackTimeoutID' = Inc32(id)
                 /\ timers' = Append(timers, NewTimer("A", id))
                 /\ IF scheduledTimeouts.isNil
                      THEN /\ mcall' = MemEnd("_scheduleTimeoutEvent", sp, "panic", "nil map",
                                              <<delay.val>>)
                           /\ UNCHANGED <<scheduledTimeouts, mem>>
                      ELSE /\ scheduledTimeouts' = [scheduledTimeouts EXCEPT !.entries = Store(id, t)]
                           /\ mem' = w.mem
                           /\ mcall' = IF w.ok
                                          THEN MemEnd("_scheduleTimeoutEvent", sp, "returned",
                                                      "none", <<delay.val, id>>)
                                          ELSE OutOfRange("_scheduleTimeoutEvent", sp,
                                                          <<delay.val, id>>)
    /\ UNCHANGED <<closed, mux, modClosed, call, hist, crashed, ncalls, stdout, stderr>>

\* _clearTimeoutEvent: id at sp+8, then clearTimeoutEvent(id): the entry is
\* taken out of the table and its timer stopped; behind a timer that has fired
\* the call waits on t.C for ever.
_clearTimeoutEvent(sp) ==
    /\ CanCallWrapper
    /\ nmem' = nmem + 1
    /\ LET r == requireReadUint32Le(mem, Slot(sp, 1))
           id == r.val
           t  == Lookup(id)
       IN IF ~r.ok
            THEN /\ mcall' = OutOfRange("_clearTimeoutEvent", sp, <<>>)
                 /\ UNCHANGED <<scheduledTimeouts, timers>>
            ELSE /\ scheduledTimeouts' = [scheduledTimeouts EXCEPT !.entries = Delete(id)]
                 /\ IF t = NoTimer
                      THEN /\ mcall' = MemEnd("_clearTimeoutEvent", sp, "returned", "none", <<id>>)
                           /\ timers' = NoteCancelReturned(timers, id)
                      ELSE IF timers[t].state = "armed"
                      THEN /\ mcall' = MemEnd("_clearTimeoutEvent", sp, "returned", "none", <<id>>)
                           /\ timers' = NoteCancelReturned(
                                   [timers EXCEPT ![t].state = "stopped", ![t].cleared = TRUE], id)
                      ELSE /\ mcall' = MemEnd("_clearTimeoutEvent", sp, "blocked", "none", <<id>>)
                           /\ UNCHANGED timers
    /\ UNCHANGED <<closed, nextCallbackTimeoutID, mux, modClosed, call, hist, crashed,
                   ncalls, mem, stdout, stderr>>

\* What one randSource.Read(r) does: it fills r, or leaves the last byte
\* out, or reports an error.
RandResults == {"full", "short", "error"}

\* A getRandomData that takes any count the source reports.
getRandomData_Check_AnyCount(n, failed, bufLen) ==
    IF failed THEN "RandSource error" ELSE "none"

\* if n, err := randSource.Read(r); err != nil { panic } else if n != int(bufLen) { panic }
getRandomData_Check(n, failed, bufLen) ==
    IF failed THEN "RandSource error"
    ELSE IF n # bufLen THEN "RandSource short read"
    ELSE "none"

\* _getRandomData: buf at sp+8 and bufLen at sp+16, both cut to 32 bits, then
\* getRandomData(buf, bufLen): one Read of the random source into the memory
\* at buf.
_getRandomData(sp, src) ==
    /\ CanCallWrapper
    /\ nmem' = nmem + 1
    /\ LET b == requireReadUint64Le(mem, Slot(sp, 1))
           l == requireReadUint64Le(mem, Slot(sp, 2))
           buf == Uint32Of(b.val)
           bufLen == Uint32Of(l.val)
           r == requireRead(mem, buf, bufLen)
           n == IF src = "full" THEN bufLen[2]
                ELSE IF src = "short" /\ bufLen[2] > 0 THEN bufLen[2] - 1
                ELSE 0
           err == getRandomData_Check(n, src = "error", bufLen[2])
       IN IF ~b.ok \/ ~l.ok
            THEN /\ mcall' = OutOfRange("_getRandomData", sp, <<>>)
                 /\ UNCHANGED mem
            ELSE IF ~r.ok
            THEN /\ mcall' = OutOfRange("_getRandomData", sp, <<buf, bufLen>>)
                 /\ UNCHANGED mem
            ELSE /\ mem' = Put(mem, buf[2], [i \in 1 .. n |-> RandByte])
                 /\ mcall' = [MemEnd("_getRandomData", sp,
                                     IF err = "none" THEN "returned" ELSE "panic",
                                     err, <<buf, bufLen>>)
                                 EXCEPT !.rand = 1, !.got = n, !.srcErr = (src = "error")]
    /\ UNCHANGED <<stdout, stderr>>
    /\ UNCHANGED jsWasmVars

\* ------------------------------------------------------------- Next
Next ==
    \/ \E p \in Procs, m \in Mods, code \in Codes : wasmExit_CAS(p, m, code)
    \/ \E p \in Procs : wasmExit_Close(p)
    \/ \E p \in Procs, m \in Mods : scheduleEvent_Lock(p, m)
    \/ \E p \in Procs : scheduleEvent_Body(p)
    \/ \E p \in Procs : scheduleEvent_Unlock(p)
    \/ \E t \in 1 .. Len(timers) : TimerFire(t)
    \/ \E t \in 1 .. Len(timers) : callResume_failIfClosed(t)
    \/ \E t \in 1 .. Len(timers) : callResume_Call(t)
    \/ \E t \in 1 .. Len(timers) : callResume_Return(t)
    \/ \E p \in Procs, m \in Mods, id \in ClearIds : removeEvent_Lock(p, m, id)
    \/ \E p \in Procs : removeEvent_Body(p)
    \/ \E p \in Procs : removeEvent_Unlock(p)
    \/ \E p \in Procs : clearTimeoutEvent_Stop(p)

Spec == Init /\ [][Next]_vars

\* The host calls of one guest thread through the sp wrappers: the guest has
\* laid out a frame in its memory and calls the imports one after another.
InitMem ==
    /\ \/ /\ closed = NilPtr
          /\ scheduledTimeouts = [isNil |-> TRUE, entries |-> {}]
       \/ /\ closed = <<Zero64>>
          /\ scheduledTimeouts = [isNil |-> FALSE, entries |-> {}]
    /\ nextCallbackTimeoutID = ToUint32(0)
    /\ mux = 0
    /\ timers = <<>>
    /\ modClosed = [m \in Mods |-> FALSE]
    /\ call = [p \in Procs |-> IdleCall]
    /\ hist = [latches |-> 0, code |-> NoCode, mod |-> "A", closes |-> 0, pre |-> 0]
    /\ crashed = FALSE
    /\ ncalls = 0
    /\ \E w1 \in Word1, w2 \in Word2, w3 \in Word3 : mem = Image(w1, w2, w3)
    /\ stdout = <<>>
    /\ stderr = <<>>
    /\ mcall = NoMemCall
    /\ nmem = 0

NextMem ==
    \/ \E sp \in Sps : _wasmExit(sp)
    \/ \E sp \in Sps, failed \in BOOLEAN : _wasmWrite(sp, failed)
    \/ \E sp \in Sps : _resetMemoryDataView(sp)
    \/ \E sp \in Sps, now \in NanoTimes : _nanotime1(sp, now)
    \/ \E sp \in Sps, now \in WallTimes : _walltime(sp, now)
    \/ \E sp \in Sps : _scheduleTimeoutEvent(sp)
    \/ \E sp \in Sps : _clearTimeoutEvent(sp)
    \/ \E sp \in Sps, src \in RandResults : _getRandomData(sp, src)

SpecMem == InitMem /\ [][NextMem]_vars

\* An instance that has been scheduling for a long time: 2^32 - 1 ids have
\* been handed out, so the counter stands at its last value, and the timer
\* of id 0 is still in the table and pending; every other timer was
\* cancelled.  The latch cell and the map are allocated.
InitLongRunning ==
    /\ closed = <<Zero64>>
    /\ scheduledTimeouts = [isNil |-> FALSE, entries |-> {<<ToUint32(0), 1>>}]
    /\ nextCallbackTimeoutID = MaxUint32
    /\ mux = 0
    /\ timers = <<NewTimer("A", ToUint32(0))>>
    /\ modClosed = [m \in Mods |-> FALSE]
    /\ call = [p \in Procs |-> IdleCall]
    /\ hist = [latches |-> 0, code |-> NoCode, mod |-> "A", closes |-> 0, pre |-> 1]
    /\ crashed = FALSE
    /\ ncalls = 0
    /\ mem = Image(<<0, 0, 0, 1>>, Zero64, Zero64)
    /\ stdout = <<>>
    /\ stderr = <<>>
    /\ mcall = NoMemCall
    /\ nmem = 0

SpecLongRunning == InitLongRunning /\ [][Next]_vars

\* ------------------------------------------------------------- properties
Timers == 1 .. Len(timers)
Executing(t) == timers[t].state \in {"check", "call", "running"}
EndedCall(p, op) == call[p].pc = "idle" /\ call[p].op = op

\* C1: on an instance as moduleBuilder builds it, every wasmExit call that has
\* ended returned normally, exactly one call latched the closed state, the
\* latch holds that call's code, and CloseWithExitCode ran once for the
\* latching call and never more than once.
FirstWriterWins ==
    \A p \in Procs : EndedCall(p, "wasmExit") =>
        /\ call[p].outcome = "returned"
        /\ hist.latches = 1
        /\ ~IsNil(closed)
        /\ Deref(closed) = PackClosed(hist.code)
        /\ hist.closes <= 1
        /\ (call[p].latched => hist.closes = 1)

C1_ExitLatchFirstWriterWins == BuiltByModuleBuilder => FirstWriterWins

C3_CallbackChecksLatchFirst ==
    [][\A t \in Timers :
          (timers[t].state = "check" /\ Latched /\ timers'[t].state # "check") =>
              /\ timers'[t].state = "done"
              /\ timers'[t].resumed = 0
              /\ closed' = closed
              /\ scheduledTimeouts' = scheduledTimeouts
              /\ nextCallbackTimeoutID' = nextCallbackTimeoutID
              /\ modClosed' = modClosed]_vars

\* C3 witness: a callback has found the latch set and ended without resume.
C3_Witness ==
    \E t \in Timers : timers[t].state = "done" /\ timers[t].err = "ExitError"
                        /\ timers[t].resumed = 0

C9_ScheduleOnFreshModule ==
    BuiltByModuleBuilder =>
        /\ \A p \in Procs : EndedCall(p, "scheduleTimeoutEvent") => call[p].outcome = "returned"
        /\ \A t \in Timers : timers[t].state # "panicked"

InCriticalSection(p) ==
    call[p].pc \in {"scheduleEvent_body", "scheduleEvent_unlock",
                    "removeEvent_body", "removeEvent_unlock"}

\* Timer t was taken out of the table by a removeEvent.
Removed(t) ==
    \/ timers[t].cleared
    \/ \E p \in Procs : /\ call[p].t = t
                        /\ call[p].pc \in {"removeEvent_unlock", "clear_stop", "clear_recv"}

\* C12: the table and the counter are touched under the lock only: at most one
\* scheduleEvent or removeEvent is in its critical section, and it holds the
\* lock; no update is lost: the counter counts every timer made, every timer
\* got its own id, and every timer stored is in the table until a removeEvent
\* took it out.
C12_TableAndCounterUnderLock ==
    /\ \A p, q \in Procs : InCriticalSection(p) /\ InCriticalSection(q) => p = q
    /\ \A p \in Procs : InCriticalSection(p) <=> mux = p
    /\ nextCallbackTimeoutID = ToUint32(Len(timers))
    /\ \A t \in Timers : timers[t].id = ToUint32(t - 1)
    /\ \A e \in Entries : e[2] \in Timers /\ timers[e[2]].id = e[1]
    /\ ~scheduledTimeouts.isNil =>
           \A t \in Timers : <<timers[t].id, t>> \in Entries \/ Removed(t)

\* A scheduleEvent is in its critical section while a removeEvent of the other
\* caller has taken a timer out of the table.
C12_Witness ==
    \E p, q \in Procs :
        /\ p # q
        /\ call[p].op = "scheduleTimeoutEvent" /\ InCriticalSection(p)
        /\ call[q].op = "clearTimeoutEvent" /\ call[q].pc = "clear_stop"

\* The addresses at which two memories differ, the addresses inside the
\* memory of the k bytes at offset off, and the values stored at an offset.
Changed(m1, m2) == {a \in 0 .. MemSize - 1 : m1[a + 1] # m2[a + 1]}
Range(off, k) ==
    IF off[1] = 0 THEN {a \in 0 .. MemSize - 1 : off[2] <= a /\ a < off[2] + k} ELSE {}
At32(m, off) == LeUint32(Bytes(m, off[2], 4))
At64(m, off) == LeUint64(Bytes(m, off[2], 8))

\* The step is a host call through an sp wrapper.
WrapperCall == nmem' = nmem + 1

\* The guest memory a wrapper may write: its result slots, and for
\* getRandomData the buffer its parameters name.
ResultSlots(c) ==
    CASE c.fn = "_walltime" -> Range(Add32(c.sp, 8), 8) \cup Range(Add32(c.sp, 16), 4)
      [] c.fn = "_nanotime1" -> Range(Add32(c.sp, 8), 8)
      [] c.fn = "_scheduleTimeoutEvent" -> Range(Add32(c.sp, 16), 4)
      [] c.fn = "_getRandomData" /\ Len(c.args) = 2 -> Range(c.args[1], c.args[2][2])
      [] OTHER -> {}

\* C13: every wrapper finds its parameters and leaves its results at 8-byte
\* strides from sp+8: walltime writes sec (64 bit) at sp+8 and nsec (32 bit) at
\* sp+16; nanotime1 writes 64 bit at sp+8; wasmWrite reads fd at sp+8, p at
\* sp+16 and n at sp+24; scheduleTimeoutEvent reads delay at sp+8 and writes the
\* id at sp+16; wasmExit and clearTimeoutEvent read their 32-bit argument at
\* sp+8; getRandomData reads buf at sp+8 and bufLen at sp+16.  A wrapper writes
\* guest memory nowhere else.
C13_StackPointerConvention ==
    [][WrapperCall =>
        LET c  == mcall'
            s1 == Add32(c.sp, 8)
            s2 == Add32(c.sp, 16)
            s3 == Add32(c.sp, 24)
        IN /\ Changed(mem, mem') \subseteq ResultSlots(c)
           /\ c.fn = "_walltime" /\ c.outcome = "returned" =>
                  At64(mem', s1) = c.args[1] /\ At32(mem', s2) = c.args[2]
           /\ c.fn = "_nanotime1" /\ c.outcome = "returned" =>
                  At64(mem', s1) = c.args[1]
           /\ c.fn = "_wasmWrite" /\ Len(c.args) > 0 =>
                  c.args = <<At64(mem, s1), At64(mem, s2), At32(mem, s3)>>
           /\ c.fn = "_scheduleTimeoutEvent" /\ Len(c.args) > 0 =>
                  c.args[1] = At64(mem, s1)
           /\ c.fn = "_scheduleTimeoutEvent" /\ c.outcome = "returned" =>
                  /\ c.args[2] = nextCallbackTimeoutID
                  /\ At32(mem', s2) = c.args[2]
           /\ c.fn \in {"_wasmExit", "_clearTimeoutEvent"} /\ Len(c.args) > 0 =>
                  c.args = <<At32(mem, s1)>>
           /\ c.fn = "_getRandomData" /\ Len(c.args) > 0 =>
                  c.args = <<Uint32Of(At64(mem, s1)), Uint32Of(At64(mem, s2))>>
    ]_vars

\* walltime has returned with both results written, and so has a
\* scheduleTimeoutEvent.
C13_Witness ==
    /\ mcall.fn = "_walltime" /\ mcall.outcome = "returned"
    /\ Len(timers) > 0 /\ Entries # {}

\* The parameter slots a wrapper reads: <<offset, bytes>>.
ParamSlots(c) ==
    CASE c.fn \in {"_wasmExit", "_clearTimeoutEvent"} -> {<<Add32(c.sp, 8), 4>>}
      [] c.fn = "_wasmWrite" ->
            {<<Add32(c.sp, 8), 8>>, <<Add32(c.sp, 16), 8>>, <<Add32(c.sp, 24), 4>>}
      [] c.fn = "_scheduleTimeoutEvent" -> {<<Add32(c.sp, 8), 8>>}
      [] c.fn = "_getRandomData" -> {<<Add32(c.sp, 8), 8>>, <<Add32(c.sp, 16), 8>>}
      [] OTHER -> {}

\* C14: when a parameter slot of _wasmExit, _wasmWrite, _clearTimeoutEvent,
\* _scheduleTimeoutEvent or _getRandomData lies beyond the memory, the call
\* fails with an out-of-range error, and the exit latch, the scheduling table
\* with its counter and timers, the output streams and the guest memory are as
\* before the call.
C14_OutOfRangeFailsWithoutEffect ==
    [][WrapperCall /\ (\E slot \in ParamSlots(mcall') : ~InRange(slot[1], ToUint32(slot[2]))) =>
        /\ mcall'.outcome = "panic"
        /\ mcall'.err = "out of range"
        /\ UNCHANGED <<closed, modClosed, scheduledTimeouts, nextCallbackTimeoutID, timers,
                       stdout, stderr, mem>>
    ]_vars

\* A wasmWrite whose fd slot is inside the memory and whose p slot is not has
\* failed, on an instance that holds a scheduled timer.
C14_Witness ==
    /\ mcall.fn = "_wasmWrite" /\ mcall.sp = ToUint32(16)
    /\ mcall.outcome = "panic" /\ mcall.err = "out of range"
    /\ Entries # {}

\* C15: wasmWrite(fd, p, n) with fd = 1 appends the n bytes of guest memory
\* [p, p+n) to stdout and nothing to stderr, with fd = 2 the same bytes to
\* stderr and nothing to stdout; with any other fd it fails and writes
\* nothing.  No failing call and no other host function writes to a stream, so
\* each stream is the concatenation of the writes to it in call order.
C15_WasmWriteAppends ==
    [][WrapperCall =>
        LET c == mcall'
        IN IF c.fn = "_wasmWrite" /\ Len(c.args) = 3
             THEN LET fd == c.args[1]
                      p  == c.args[2]
                      n  == c.args[3]
                      inMemory == p[1] = 0 /\ p[2] = 0 /\ InRange(<<p[3], p[4]>>, n)
                      data == Bytes(mem, p[4], n[2])
                  IN /\ fd \in {<<0, 0, 0, 1>>, <<0, 0, 0, 2>>} /\ inMemory =>
                            c.outcome = "returned" \/ c.err = "error writing p"
                     /\ fd = <<0, 0, 0, 1>> /\ inMemory /\ c.outcome = "returned" =>
                            stdout' = stdout \o data /\ stderr' = stderr
                     /\ fd = <<0, 0, 0, 2>> /\ inMemory /\ c.outcome = "returned" =>
                            stderr' = stderr \o data /\ stdout' = stdout
                     /\ fd \notin {<<0, 0, 0, 1>>, <<0, 0, 0, 2>>} => c.outcome = "panic"
                     /\ c.outcome = "panic" => UNCHANGED <<stdout, stderr>>
             ELSE UNCHANGED <<stdout, stderr>>
    ]_vars

\* Two writes of the three bytes at address 4 have returned: stdout holds
\* them twice, in order.
C15_Witness ==
    /\ mcall.fn = "_wasmWrite" /\ mcall.outcome = "returned"
    /\ stdout = <<69, 70, 71, 69, 70, 71>>
    /\ stderr = <<>>

\* C16: getRandomData(buf, bufLen) on a buffer inside the memory reads the
\* random source exactly once; it returns only when the source gave bufLen
\* bytes without error, and then exactly the bytes [buf, buf+bufLen) hold what
\* the source gave; when the source reports an error or gives fewer bytes the
\* call fails.  No other host function reads the source.
C16_RandomDataFillsOrFails ==
    [][WrapperCall =>
        LET c == mcall'
        IN IF c.fn = "_getRandomData" /\ Len(c.args) = 2 /\ InRange(c.args[1], c.args[2])
             THEN LET buf == c.args[1]
                      bufLen == c.args[2][2]
                  IN /\ c.rand = 1
                     /\ c.outcome \in {"returned", "panic"}
                     /\ c.outcome = "returned" <=> (~c.srcErr /\ c.got = bufLen)
                     /\ c.outcome = "returned" =>
                            /\ \A a \in Range(buf, bufLen) : mem'[a + 1] = RandByte
                            /\ Changed(mem, mem') \subseteq Range(buf, bufLen)
             ELSE c.rand = 0
    ]_vars

\* After a getRandomData that filled the four bytes at address 1, another one
\* has failed on a read that gave three bytes.
C16_Witness ==
    /\ mcall.fn = "_getRandomData" /\ mcall.outcome = "panic"
    /\ mcall.err = "RandSource short read" /\ mcall.got = 3
    /\ Bytes(mem, 1, 4) = <<RandByte, RandByte, RandByte, RandByte>>

\* What the runtime knows of each timer: its state and whether Stop took effect.
TimerStates(ts) == [t \in 1 .. Len(ts) |-> <<ts[t].state, ts[t].cleared>>]

\* C18: a clearTimeoutEvent(id) whose id is not in the table (never scheduled,
\* or already removed) finds no timer, returns from removeEvent straight to its
\* caller without stopping or awaiting a timer, and leaves the table and every
\* timer as they were.
C18_ClearOfAbsentIdIsNoOp ==
    [][\A p \in Procs :
        /\ call[p].pc = "removeEvent_body" /\ call[p].arg \notin TableIds
              /\ call'[p] # call[p] =>
                 /\ call'[p].pc = "removeEvent_unlock" /\ call'[p].t = NoTimer
                 /\ scheduledTimeouts' = scheduledTimeouts
                 /\ timers' = timers
        /\ call[p].pc = "removeEvent_unlock" /\ call[p].t = NoTimer
              /\ call'[p] # call[p] =>
                 /\ call'[p].pc = "idle" /\ call'[p].outcome = "returned"
                 /\ ~call'[p].stopped
                 /\ scheduledTimeouts' = scheduledTimeouts
                 /\ TimerStates(timers') = TimerStates(timers)
    ]_vars

\* A clearTimeoutEvent of an absent id has returned while another timer is
\* scheduled and pending.
C18_Witness ==
    \E p \in Procs :
        /\ EndedCall(p, "clearTimeoutEvent")
        /\ call[p].outcome = "returned" /\ ~call[p].stopped
        /\ \E e \in Entries : timers[e[2]].state = "armed"

C21_CancelWaitsWithoutLock ==
    /\ \A p \in Procs : call[p].pc \in {"clear_stop", "clear_recv"} => mux # p
    /\ \A p \in Procs : mux = p /\ ~crashed =>
           /\ InCriticalSection(p)
           /\ ENABLED (scheduleEvent_Body(p) \/ scheduleEvent_Unlock(p)
                           \/ removeEvent_Body(p) \/ removeEvent_Unlock(p))
    /\ \A t \in Timers : Executing(t) /\ ~crashed =>
           ENABLED (callResume_failIfClosed(t) \/ callResume_Call(t) \/ callResume_Return(t))

\* While one clearTimeoutEvent waits on its timer, the other caller holds the
\* lock and is inside scheduleEvent or removeEvent.
C21_Witness ==
    \E p, q \in Procs :
        /\ call[p].pc = "clear_recv"
        /\ mux = q /\ InCriticalSection(q)

\* C22: a wrapper that fails while it writes a result leaves no partial
\* effect: a _walltime that fails on its nsec slot leaves the sec slot (and
\* all guest memory) as it was, and a _scheduleTimeoutEvent that fails on its
\* id slot leaves no timer scheduled and the table and the id counter as they
\* were.
C22_FailedResultWriteLeavesNoEffect ==
    [][WrapperCall /\ mcall'.fn \in {"_walltime", "_scheduleTimeoutEvent"}
           /\ mcall'.outcome = "panic" /\ mcall'.err = "out of range" =>
        UNCHANGED <<mem, scheduledTimeouts, nextCallbackTimeoutID, timers>>
    ]_vars

\* sp + k exceeds 2^32 - 1, and a 64-bit value exceeds 2^32 - 1.
Overflows(sp, k) == sp[1] = Limb - 1 /\ sp[2] + k >= Limb
Above32(v) == v[1] # 0 \/ v[2] # 0

\* The offset of the last slot a wrapper uses.
LastSlotOffset(fn) ==
    CASE fn = "_wasmWrite" -> 24
      [] fn \in {"_walltime", "_scheduleTimeoutEvent", "_getRandomData"} -> 16
      [] OTHER -> 8

\* The call ended with the out-of-range failure.
FailedOutOfRange(c) == c.outcome = "panic" /\ c.err = "out of range"

\* C23: the address arithmetic of the wrappers does not wrap: a call whose
\* sp+8, sp+16 or sp+24 exceeds 2^32-1 fails with the out-of-range error, and
\* so does a wasmWrite (of fd 1 or 2) whose 64-bit p, and a getRandomData whose
\* 64-bit buf or bufLen, exceeds 2^32-1; none accesses guest memory at the
\* address reduced modulo 2^32.
C23_AddressArithmeticDoesNotWrap ==
    [][WrapperCall =>
        LET c == mcall'
        IN /\ c.fn # "_resetMemoryDataView" /\ Overflows(c.sp, LastSlotOffset(c.fn)) =>
                  FailedOutOfRange(c)
           /\ c.fn = "_wasmWrite" /\ Len(c.args) = 3
                  /\ c.args[1] \in {<<0, 0, 0, 1>>, <<0, 0, 0, 2>>}
                  /\ Above32(c.args[2]) =>
                  FailedOutOfRange(c)
           /\ c.fn = "_getRandomData" /\ Len(c.args) = 2
                  /\ (\/ Above32(At64(mem, Add32(c.sp, 8)))
                      \/ Above32(At64(mem, Add32(c.sp, 16)))) =>
                  FailedOutOfRange(c)
    ]_vars

====
